---- MODULE Spec2Model ----
(***************************************************************************)
(* Coding-events streaming subsystem of DevScout-Elite-Platform.          *)
(*                                                                         *)
(*   scripts/streaming/kafka_producer.py      CodingEventProducer          *)
(*   spark_jobs/streaming/coding_events_consumer.py  consume_coding_events *)
(*                                                                         *)
(* The consumer is four Structured Streaming queries over one Kafka topic: *)
(*   query1  test_aggregates  (10 minute tumbling windows, watermark 10    *)
(*           minutes, output mode update, console sink)                    *)
(*   query2  completions_df   (append, console sink)                       *)
(*   query3  live_aggregates  (5 minute tumbling windows, watermark 5      *)
(*           minutes, output mode update, console sink)                    *)
(*   query4  completions_df   (append, foreachBatch write_to_postgres)     *)
(* Each query owns its offsets, its watermark and its state store, and     *)
(* runs its micro-batches one after the other.                             *)
(*                                                                         *)
(* Time is counted in minutes since the epoch.  Floats are fixed-point     *)
(* integers.  _sum("has_errors") is modelled as the number of rows whose   *)
(* has_errors is true.                                                     *)
(***************************************************************************)
EXTENDS Integers, Sequences, FiniteSets, TLC

VARIABLES
    topic,       \* Kafka log of "coding-events": [Partitions -> Seq(json value)]
    offsets,     \* per query, per partition: next offset to read
    watermark,   \* per query: event-time watermark used by the last batch
    stats,       \* per query: max event_timestamp seen by the last batch (0: none)
    store,       \* per windowed query: state store, window key -> aggregation buffer
    console,     \* per query: the console sink, one set of rows per batch
    postgres,    \* rows appended to silver.coding_challenge_scores
    contrib,     \* history: per windowed query, window key -> rows merged, in arrival order
    dropped,     \* history: per windowed query, rows the watermark filter discarded
    evicted,     \* history: per windowed query, <<window key, buffer>> removed from the store
    generation,  \* number of times the consumer process has been started again
    twin,        \* history: per windowed query, the same query had it never been restarted
    skipped,     \* history: the queries that had unread values when restarted
    stopped,     \* the consumer process has been interrupted and has exited
    terminated,  \* the queries that have terminated with an exception
    candidates,  \* the table silver.candidates, rows in insertion order
    serial,      \* the sequence behind silver.candidates.candidate_id
    calls,       \* per API request: where its CreateCandidateUseCase.execute stands
    fetch        \* one call of GitHubEnricher.fetch_user_repos: its locals

vars == <<topic, offsets, watermark, stats, store, console, postgres,
          contrib, dropped, evicted, generation, twin, skipped, stopped,
          terminated, candidates, serial, calls, fetch>>

\* the state of the REST layer and of the GitHub client, which the
\* streaming subsystem does not touch
sideVars == <<candidates, serial, calls, fetch>>

-----------------------------------------------------------------------------
(* Bounds *)

MaxEvents == 3
MaxRestarts == 1
MaxScenarioEvents == 4
MaxRequests == 2

(* Program constants *)

TestWindow == 10
TestDelay == 10
LiveWindow == 5
LiveDelay == 5

\* the partitions of the topic
Partitions == {1, 2}

Queries == {"query1", "query2", "query3", "query4"}
WindowedQueries == {"query1", "query3"}

NullInt == -1
NullStr == "null"
NotADate == -2       \* a "timestamp" string that to_timestamp cannot parse
Garbage == [bytes |-> "not json"]

-----------------------------------------------------------------------------
(* Helpers *)

Max(a, b) == IF a >= b THEN a ELSE b

RECURSIVE SeqMax(_)
SeqMax(s) == IF s = <<>> THEN 0 ELSE Max(Head(s), SeqMax(Tail(s)))

Range(s) == {s[i] : i \in 1..Len(s)}

RECURSIVE SetToSeq(_)
SetToSeq(S) == IF S = {} THEN <<>>
               ELSE LET x == CHOOSE y \in S : TRUE IN <<x>> \o SetToSeq(S \ {x})

TotalEvents == LET RECURSIVE Sum(_)
                   Sum(P) == IF P = {} THEN 0
                             ELSE LET p == CHOOSE x \in P : TRUE
                                  IN Len(topic[p]) + Sum(P \ {p})
               IN Sum(Partitions)

-----------------------------------------------------------------------------
(* kafka_producer.py *)

\* send_event: adds event_id and timestamp, both read from the clock
send_event(event_data, now) ==
    [f \in DOMAIN event_data \cup {"event_id", "timestamp", "producer"} |->
        IF f = "event_id" THEN now
        ELSE IF f = "timestamp" THEN now
        ELSE IF f = "producer" THEN "CodingEventProducer"
        ELSE event_data[f]]

send_code_submission_event(candidate_id, challenge_id, now) ==
    send_event([event_type |-> "code_submission",
                candidate_id |-> candidate_id,
                challenge_id |-> challenge_id,
                language |-> "python"], now)

send_test_result_event(candidate_id, challenge_id, tests_passed, tests_total, execution_time_ms, errors, now) ==
    send_event([event_type |-> "test_result",
                candidate_id |-> candidate_id,
                challenge_id |-> challenge_id,
                tests_passed |-> tests_passed,
                tests_total |-> tests_total,
                success_rate |-> IF tests_total > 0
                                 THEN (tests_passed * 100) \div tests_total
                                 ELSE 0,
                execution_time_ms |-> execution_time_ms,
                has_errors |-> errors], now)

send_challenge_completion_event(candidate_id, challenge_id, final_score, time_taken_seconds, attempts, now) ==
    send_event([event_type |-> "challenge_completion",
                candidate_id |-> candidate_id,
                challenge_id |-> challenge_id,
                final_score |-> final_score,
                time_taken_seconds |-> time_taken_seconds,
                attempts |-> attempts], now)

send_live_coding_metric(candidate_id, session_id, metric_type, metric_value, now) ==
    send_event([event_type |-> "live_coding_metric",
                candidate_id |-> candidate_id,
                session_id |-> session_id,
                metric_type |-> metric_type,
                metric_value |-> metric_value], now)

-----------------------------------------------------------------------------
(* coding_events_consumer.py: schema and parsing *)

IntFields == {"event_id", "candidate_id", "timestamp", "tests_passed", "tests_total",
              "success_rate", "execution_time_ms", "final_score",
              "time_taken_seconds", "attempts", "metric_value"}
StrFields == {"event_type", "challenge_id", "session_id", "metric_type"}
BoolFields == {"has_errors"}

get_event_schema == IntFields \cup StrFields \cup BoolFields

\* from_json in its default permissive mode: a value that is not JSON, or a
\* field the value lacks, gives null; fields outside the schema are dropped;
\* a boolean is kept as 1 or 0
from_json(v, schema) ==
    [f \in schema |->
        IF f \in DOMAIN v
        THEN IF f \in BoolFields THEN (IF v[f] THEN 1 ELSE 0) ELSE v[f]
        ELSE IF f \in StrFields THEN NullStr ELSE NullInt]

to_timestamp(s) == IF s >= 0 THEN s ELSE NullInt

\* one row of events_df
ParseEvent(v) ==
    LET data == from_json(v, get_event_schema)
    IN [f \in get_event_schema \cup {"event_timestamp"} |->
           IF f = "event_timestamp" THEN to_timestamp(data.timestamp) ELSE data[f]]

events_df(values) == [i \in 1..Len(values) |-> ParseEvent(values[i])]

TestResultRow(e) ==
    [candidate_id |-> e.candidate_id, challenge_id |-> e.challenge_id,
     tests_passed |-> e.tests_passed, tests_total |-> e.tests_total,
     success_rate |-> e.success_rate, execution_time_ms |-> e.execution_time_ms,
     has_errors |-> e.has_errors, event_timestamp |-> e.event_timestamp]

test_results_df(events) ==
    LET sel == SelectSeq(events, LAMBDA e : e.event_type = "test_result")
    IN [i \in 1..Len(sel) |-> TestResultRow(sel[i])]

CompletionRow(e) ==
    [candidate_id |-> e.candidate_id, challenge_id |-> e.challenge_id,
     final_score |-> e.final_score, time_taken_seconds |-> e.time_taken_seconds,
     attempts |-> e.attempts, event_timestamp |-> e.event_timestamp]

\* a completion stream that keeps one of several equal rows
completions_df_distinct(events) ==
    LET sel == SelectSeq(events, LAMBDA e : e.event_type = "challenge_completion")
    IN SetToSeq({CompletionRow(sel[i]) : i \in 1..Len(sel)})

completions_df(events) ==
    LET sel == SelectSeq(events, LAMBDA e : e.event_type = "challenge_completion")
    IN [i \in 1..Len(sel) |-> CompletionRow(sel[i])]

LiveMetricRow(e) ==
    [candidate_id |-> e.candidate_id, session_id |-> e.session_id,
     metric_type |-> e.metric_type, metric_value |-> e.metric_value,
     event_timestamp |-> e.event_timestamp]

live_metrics_df(events) ==
    LET sel == SelectSeq(events, LAMBDA e : e.event_type = "live_coding_metric")
    IN [i \in 1..Len(sel) |-> LiveMetricRow(sel[i])]

\* the stream each query is defined on
QueryRows(q, events) ==
    IF q = "query1" THEN test_results_df(events)
    ELSE IF q = "query3" THEN live_metrics_df(events)
    ELSE completions_df(events)

-----------------------------------------------------------------------------
(* coding_events_consumer.py: windows, watermarks and aggregation *)

\* the two delays taken for each other
Delay_swapped(q) == IF q = "query1" THEN LiveDelay ELSE TestDelay

Delay(q) == IF q = "query1" THEN TestDelay ELSE LiveDelay
WindowSize(q) == IF q = "query1" THEN TestWindow ELSE LiveWindow

\* a window that starts at the event instead of at a multiple of the size
window_sliding(t, size) == [start |-> t, end |-> t + size]

\* window(col("event_timestamp"), size): the tumbling window holding t
window(t, size) == [start |-> t - (t % size), end |-> t - (t % size) + size]

\* a grouping with one window for all time
KeyOf_nowindow(q, r) ==
    IF q = "query1"
    THEN [window |-> [start |-> 0, end |-> 1000000],
          candidate_id |-> r.candidate_id, challenge_id |-> r.challenge_id]
    ELSE [window |-> [start |-> 0, end |-> 1000000],
          candidate_id |-> r.candidate_id, session_id |-> r.session_id,
          metric_type |-> r.metric_type]

\* a grouping by window and candidate alone
KeyOf_candidateonly(q, r) ==
    IF q = "query1"
    THEN [window |-> window(r.event_timestamp, TestWindow),
          candidate_id |-> r.candidate_id, challenge_id |-> "c1"]
    ELSE [window |-> window(r.event_timestamp, LiveWindow),
          candidate_id |-> r.candidate_id, session_id |-> "s1",
          metric_type |-> "keystrokes_per_minute"]

\* the grouping key of a row: groupBy(window(...), candidate_id, ...)
KeyOf(q, r) ==
    IF q = "query1"
    THEN [window |-> window(r.event_timestamp, TestWindow),
          candidate_id |-> r.candidate_id, challenge_id |-> r.challenge_id]
    ELSE [window |-> window(r.event_timestamp, LiveWindow),
          candidate_id |-> r.candidate_id, session_id |-> r.session_id,
          metric_type |-> r.metric_type]

\* aggregation buffers: avg keeps (sum, count) of the non-null values,
\* count("*") counts rows, _sum adds the non-null values
ZeroBuf(q) ==
    IF q = "query1"
    THEN [sr_sum |-> 0, sr_cnt |-> 0, et_sum |-> 0, et_cnt |-> 0, cnt |-> 0, err |-> 0]
    ELSE [mv_sum |-> 0, mv_cnt |-> 0, cnt |-> 0]

AddTo(sum, v) == IF v = NullInt THEN sum ELSE sum + v
CountOf(cnt, v) == IF v = NullInt THEN cnt ELSE cnt + 1

\* a merge that keeps a running mean instead of the sum, so that the
\* order of arrival shows in the buffer
Merge_running(q, buf, r) ==
    IF q = "query1"
    THEN [sr_sum |-> IF buf.cnt = 0 THEN r.success_rate
                     ELSE (buf.sr_sum + r.success_rate) \div 2,
          sr_cnt |-> 1,
          et_sum |-> AddTo(buf.et_sum, r.execution_time_ms),
          et_cnt |-> CountOf(buf.et_cnt, r.execution_time_ms),
          cnt |-> buf.cnt + 1,
          err |-> AddTo(buf.err, r.has_errors)]
    ELSE [mv_sum |-> IF buf.cnt = 0 THEN r.metric_value
                     ELSE (buf.mv_sum + r.metric_value) \div 2,
          mv_cnt |-> 1,
          cnt |-> buf.cnt + 1]

Merge(q, buf, r) ==
    IF q = "query1"
    THEN [sr_sum |-> AddTo(buf.sr_sum, r.success_rate),
          sr_cnt |-> CountOf(buf.sr_cnt, r.success_rate),
          et_sum |-> AddTo(buf.et_sum, r.execution_time_ms),
          et_cnt |-> CountOf(buf.et_cnt, r.execution_time_ms),
          cnt |-> buf.cnt + 1,
          err |-> AddTo(buf.err, r.has_errors)]
    ELSE [mv_sum |-> AddTo(buf.mv_sum, r.metric_value),
          mv_cnt |-> CountOf(buf.mv_cnt, r.metric_value),
          cnt |-> buf.cnt + 1]

\* avg: sum/count in hundredths, null over no values
Avg(sum, cnt) == IF cnt = 0 THEN NullInt ELSE (sum * 100) \div cnt

\* the row an aggregation emits for a key
OutRow(q, k, buf) ==
    IF q = "query1"
    THEN [window |-> k.window, candidate_id |-> k.candidate_id,
          challenge_id |-> k.challenge_id,
          avg_success_rate |-> Avg(buf.sr_sum, buf.sr_cnt),
          avg_execution_time |-> Avg(buf.et_sum, buf.et_cnt),
          attempt_count |-> buf.cnt,
          error_count |-> buf.err]
    ELSE [window |-> k.window, candidate_id |-> k.candidate_id,
          session_id |-> k.session_id, metric_type |-> k.metric_type,
          avg_metric_value |-> Avg(buf.mv_sum, buf.mv_cnt),
          metric_count |-> buf.cnt]

Put(f, k, v) == [x \in DOMAIN f \cup {k} |-> IF x = k THEN v ELSE f[x]]

\* a state store update that starts a new buffer for every row, losing
\* what the key had accumulated
RECURSIVE MergeAll_fresh(_, _, _)
MergeAll_fresh(q, st, rows) ==
    IF rows = <<>> THEN st
    ELSE LET r == Head(rows)
             k == KeyOf(q, r)
         IN MergeAll_fresh(q, Put(st, k, Merge(q, ZeroBuf(q), r)), Tail(rows))

\* state store update: every row is merged into the buffer of its key,
\* which is created on first touch
RECURSIVE MergeAll(_, _, _)
MergeAll(q, st, rows) ==
    IF rows = <<>> THEN st
    ELSE LET r == Head(rows)
             k == KeyOf(q, r)
             b == IF k \in DOMAIN st THEN st[k] ELSE ZeroBuf(q)
         IN MergeAll(q, Put(st, k, Merge(q, b, r)), Tail(rows))

RECURSIVE RecordAll(_, _, _)
RecordAll(q, h, rows) ==
    IF rows = <<>> THEN h
    ELSE LET r == Head(rows)
             k == KeyOf(q, r)
             b == IF k \in DOMAIN h THEN h[k] ELSE <<>>
         IN RecordAll(q, Put(h, k, Append(b, r)), Tail(rows))

\* a watermark that follows the last batch down
NextWatermarkOf_latest(q, wm, st) ==
    IF st > 0 THEN st - Delay(q) ELSE wm

\* withWatermark: the watermark a new batch runs with, from the watermark
\* of the batch before and the largest event time that batch saw
NextWatermarkOf(q, wm, st) ==
    IF st > 0 THEN Max(wm, st - Delay(q)) ELSE wm

NextWatermark(q) == NextWatermarkOf(q, watermark[q], stats[q])

\* a watermark predicate that lets every row through
IsLate_never(q, r, wm) == FALSE

\* the watermark predicate on a window: the window ended at or before wm
IsLate(q, r, wm) == KeyOf(q, r).window.end <= wm

\* a close that keeps the window that ends exactly at the watermark
Closed_strict(st, wm) == {k \in DOMAIN st : k.window.end < wm}

\* the keys a batch removes from the state store
Closed(st, wm) == {k \in DOMAIN st : k.window.end <= wm}

\* an output that also carries a row for the window after each window
\* merged into, whether it holds rows or not
Updated_gapfill(q, st, kept) ==
    {OutRow(q, KeyOf(q, r), st[KeyOf(q, r)]) : r \in Range(kept)}
    \cup {OutRow(q, KeyOf(q, [r EXCEPT !.event_timestamp = @ + WindowSize(q)]), ZeroBuf(q)) :
              r \in Range(kept)}

\* the rows a batch writes in output mode update: the keys merged into
Updated(q, st, kept) == {OutRow(q, KeyOf(q, r), st[KeyOf(q, r)]) : r \in Range(kept)}

-----------------------------------------------------------------------------
(* Inputs *)

\* clock readings of the producers, in minutes: two in one test-result
\* window, one that carries the 10 minute watermark to the end of that window
TestTimes == {10, 12, 30}
\* the same for the 5 minute windows of the live metrics
LiveTimes == {10, 12, 20}

\* clock readings around the end of the window [10, 20): 9 is that end
\* minus the 10 minute delay minus one, 31 carries the watermark past it
BoundaryTimes == {9, 15, 31}

\* the feed T, T+2 minutes, T+11 minutes for T = 10, and a later event
\* that carries the watermark past T+10 minutes
ScenarioStart == 10
ScenarioTimes == {ScenarioStart, ScenarioStart + 2, ScenarioStart + 11, 31}
ScenarioPartitions == {1}
ScenarioInputs == {<<2, 2, 200, FALSE>>}

\* clock readings that tell the two delays apart: 26 carries a 10 minute
\* watermark to 16, inside the window [10, 20), and a 5 minute watermark
\* to 21, past it and past the live window [10, 15)
LatenessTestTimes == {10, 26}
LatenessLiveTimes == {10, 26}

\* events of several group keys in one window: <<candidate_id,
\* challenge_id, clock>> and <<candidate_id, session_id, metric_type, clock>>
KeyedTests == {<<7, "c1", 10>>, <<8, "c1", 10>>, <<7, "c2", 10>>}
KeyedMetrics == {<<7, "s1", "keystrokes_per_minute", 10>>, <<7, "s2", "copy_paste", 10>>}

CandidateIds == {7}
ChallengeIds == {"c1"}
SessionIds == {"s1"}
MetricTypes == {"keystrokes_per_minute"}
MetricValues == {40, 60}
\* <<tests_passed, tests_total, execution_time_ms, errors>>
TestInputs == {<<1, 2, 100, TRUE>>, <<2, 2, 200, FALSE>>}
\* more tests passed than there are tests
OutOfRangeTestInputs == {<<3, 2, 200, FALSE>>}
\* <<final_score, time_taken_seconds, attempts>>
CompletionInputs == {<<85, 3600, 3>>}
CompletionTimes == {10, 12}
SubmissionTimes == {10}

\* values on the topic that CodingEventProducer did not stamp: bytes that
\* are not JSON, and events whose timestamp or candidate_id is unusable
ForeignValues ==
    {Garbage,
     [event_id |-> 1, event_type |-> "test_result", challenge_id |-> "c1",
      timestamp |-> NotADate, success_rate |-> 100, has_errors |-> FALSE],
     [event_id |-> 2, event_type |-> "challenge_completion", candidate_id |-> 7,
      challenge_id |-> "c1", timestamp |-> NotADate, final_score |-> 85]}

-----------------------------------------------------------------------------
(* api/domain/entities.py, api/application/use_cases.py,
   api/infrastructure/postgres_repositories.py *)

\* the API requests in flight, each with a database session of its own
Requests == 1..MaxRequests

\* Candidate.id of a candidate that has none yet (CandidateId is positive)
NoId == 0
\* Optional[Candidate]: no candidate
None == [id |-> NoId, name |-> "", email |-> ""]

Emails == {"jane@example.com", "john@example.com"}
Names == {"Jane Smith"}
\* the candidates a request may carry: new ones, and ones that carry an id
CandidateInputs == [id : {NoId, 1}, name : Names, email : Emails]

\* what a call has returned or raised
Pending == [kind |-> "pending", value |-> NoId, error |-> ""]
Returned(id) == [kind |-> "returned", value |-> id, error |-> ""]
Raised(e) == [kind |-> "raised", value |-> NoId, error |-> e]

\* a request before CreateCandidateUseCase.execute is called
Idle == [pc |-> "idle", candidate |-> None, existing |-> None,
         saved |-> <<>>, result |-> Pending]

RowsWithEmail(table, email) == SelectSeq(table, LAMBDA row : row.email = email)
RowsWithId(table, id) == SelectSeq(table, LAMBDA row : row.candidate_id = id)

\* a table without the unique index
UniqueEmail_absent(table, email, id) == TRUE

\* the unique index on silver.candidates (email), which the loaders' INSERT
\* ... ON CONFLICT (email) rests on: no row other than row id has the email
UniqueEmail(table, email, id) ==
    \A i \in 1..Len(table) : table[i].email = email => table[i].candidate_id = id

\* PostgreSQLCandidateRepository.find_by_email: the candidate of the first
\* row with the email; None when there is no such row, and also when the
\* SELECT or get_by_id raises (the exception is logged and swallowed)
find_by_email(table, email, ok) ==
    LET rows == RowsWithEmail(table, email)
    IN IF ok /\ rows # <<>>
       THEN [id |-> rows[1].candidate_id, name |-> rows[1].candidate_name,
             email |-> rows[1].email]
       ELSE None

\* PostgreSQLCandidateRepository.save: UPDATE ... RETURNING candidate_id when
\* the candidate has an id, INSERT ... RETURNING candidate_id otherwise; an
\* exception rolls the session back and is raised again
save(table, seq, candidate) ==
    IF candidate.id # NoId
    THEN IF RowsWithId(table, candidate.id) = <<>>
         THEN [table |-> table, serial |-> seq, result |-> Raised("TypeError")]
         ELSE IF ~UniqueEmail(table, candidate.email, candidate.id)
         THEN [table |-> table, serial |-> seq, result |-> Raised("IntegrityError")]
         ELSE [table |-> [i \in 1..Len(table) |->
                            IF table[i].candidate_id = candidate.id
                            THEN [candidate_id |-> candidate.id,
                                  candidate_name |-> candidate.name,
                                  email |-> candidate.email]
                            ELSE table[i]],
               serial |-> seq,
               result |-> Returned(candidate.id)]
    ELSE IF ~UniqueEmail(table, candidate.email, NoId)
         THEN [table |-> table, serial |-> seq + 1, result |-> Raised("IntegrityError")]
         ELSE [table |-> Append(table, [candidate_id |-> seq + 1,
                                        candidate_name |-> candidate.name,
                                        email |-> candidate.email]),
               serial |-> seq + 1,
               result |-> Returned(seq + 1)]

\* an execute that saves without looking at what find_by_email returned
MayRaise_never(existing) == FALSE

\* CreateCandidateUseCase.execute: "if existing: raise ValueError"
MayRaise(existing) == existing # None

-----------------------------------------------------------------------------
(* scripts/extractors/github_client.py *)

Min(a, b) == IF a <= b THEN a ELSE b

DefaultMaxRepos == 100
\* the page size GitHub allows at most
PageCap == 100

\* the values of max_repos a call is made with
MaxReposInputs == {0, 1, 2, 3, 5, 10, 20, 50, 100, 101, 150, 199, 200, 250, 300}

\* fetch_user_repos(username, max_repos) before its loop
fetch_user_repos(max_repos) ==
    [pc |-> "while", max_repos |-> max_repos, per_page |-> Min(PageCap, max_repos),
     page |-> 1, repos |-> <<>>]

\* the number of repositories a page of the API may hold: none, one, a
\* full page, one less than a full page
PageLengths(per_page) == {0, 1, per_page - 1, per_page} \cap 0..per_page

StatusCodes == {200, 404}

\* one turn of the loop of fetch_user_repos on the response (status_code,
\* data), or on requests.get raising
fetch_page(f, raises, status_code, data) ==
    IF raises \/ status_code # 200 \/ data = <<>>
    THEN [f EXCEPT !.pc = "return"]
    ELSE IF Len(data) < f.per_page
    THEN [f EXCEPT !.repos = @ \o data, !.pc = "return"]
    ELSE [f EXCEPT !.repos = @ \o data, !.page = @ + 1]

-----------------------------------------------------------------------------
(* State *)

InitConsumer ==
    /\ topic = [p \in Partitions |-> <<>>]
    /\ offsets = [q \in Queries |-> [p \in Partitions |-> 0]]
    /\ watermark = [q \in WindowedQueries |-> 0]
    /\ stats = [q \in WindowedQueries |-> 0]
    /\ store = [q \in WindowedQueries |-> <<>>]
    /\ console = [q \in Queries \ {"query4"} |-> <<>>]
    /\ postgres = <<>>
    /\ contrib = [q \in WindowedQueries |-> <<>>]
    /\ dropped = [q \in WindowedQueries |-> <<>>]
    /\ evicted = [q \in WindowedQueries |-> <<>>]
    /\ generation = 0
    /\ twin = [q \in WindowedQueries |->
                 [offsets |-> [p \in Partitions |-> 0], watermark |-> 0,
                  stats |-> 0, store |-> <<>>, output |-> {}]]
    /\ skipped = {}
    /\ stopped = FALSE
    /\ terminated = {}

InitApi ==
    /\ candidates = <<>>
    /\ serial = 0
    /\ calls = [r \in Requests |-> Idle]

Init ==
    /\ InitConsumer
    /\ InitApi
    /\ fetch = fetch_user_repos(DefaultMaxRepos)

\* a call of fetch_user_repos with any of the values of max_repos
InitFetch ==
    /\ InitConsumer
    /\ InitApi
    /\ fetch \in {fetch_user_repos(m) : m \in MaxReposInputs}

-----------------------------------------------------------------------------
(* Producers: KafkaProducer.send appends the value to one partition *)

CanSend == TotalEvents < MaxEvents

Sent(p, v) == [topic EXCEPT ![p] = Append(@, v)]

consumerVars == <<offsets, watermark, stats, store, console, postgres,
                  contrib, dropped, evicted, generation, twin, skipped, stopped,
                  terminated>>

ProduceCodeSubmission ==
    \E p \in Partitions, c \in CandidateIds, ch \in ChallengeIds,
       now \in SubmissionTimes :
        /\ CanSend
        /\ topic' = Sent(p, send_code_submission_event(c, ch, now))
        /\ UNCHANGED <<consumerVars, sideVars>>

ProduceTestResult ==
    \E p \in Partitions, c \in CandidateIds, ch \in ChallengeIds,
       i \in TestInputs, now \in TestTimes :
        /\ CanSend
        /\ topic' = Sent(p, send_test_result_event(c, ch, i[1], i[2], i[3], i[4], now))
        /\ UNCHANGED <<consumerVars, sideVars>>

ProduceBoundaryTestResult ==
    \E p \in Partitions, c \in CandidateIds, ch \in ChallengeIds,
       i \in TestInputs, now \in BoundaryTimes :
        /\ CanSend
        /\ topic' = Sent(p, send_test_result_event(c, ch, i[1], i[2], i[3], i[4], now))
        /\ UNCHANGED <<consumerVars, sideVars>>

ProduceScenarioTestResult ==
    \E p \in ScenarioPartitions, c \in CandidateIds, ch \in ChallengeIds,
       i \in ScenarioInputs, now \in ScenarioTimes :
        /\ TotalEvents < MaxScenarioEvents
        /\ topic' = Sent(p, send_test_result_event(c, ch, i[1], i[2], i[3], i[4], now))
        /\ UNCHANGED <<consumerVars, sideVars>>

ProduceLatenessTestResult ==
    \E p \in ScenarioPartitions, c \in CandidateIds, ch \in ChallengeIds,
       i \in ScenarioInputs, now \in LatenessTestTimes :
        /\ CanSend
        /\ topic' = Sent(p, send_test_result_event(c, ch, i[1], i[2], i[3], i[4], now))
        /\ UNCHANGED <<consumerVars, sideVars>>

ProduceLatenessLiveMetric ==
    \E p \in ScenarioPartitions, c \in CandidateIds, s \in SessionIds,
       m \in MetricTypes, now \in LatenessLiveTimes :
        /\ CanSend
        /\ topic' = Sent(p, send_live_coding_metric(c, s, m, 40, now))
        /\ UNCHANGED <<consumerVars, sideVars>>

ProduceKeyedTestResult ==
    \E p \in ScenarioPartitions, e \in KeyedTests, i \in ScenarioInputs :
        /\ CanSend
        /\ topic' = Sent(p, send_test_result_event(e[1], e[2], i[1], i[2], i[3], i[4], e[3]))
        /\ UNCHANGED <<consumerVars, sideVars>>

ProduceKeyedLiveMetric ==
    \E p \in ScenarioPartitions, e \in KeyedMetrics :
        /\ CanSend
        /\ topic' = Sent(p, send_live_coding_metric(e[1], e[2], e[3], 40, e[4]))
        /\ UNCHANGED <<consumerVars, sideVars>>

ProduceOutOfRangeTestResult ==
    \E p \in Partitions, c \in CandidateIds, ch \in ChallengeIds,
       i \in OutOfRangeTestInputs, now \in TestTimes :
        /\ CanSend
        /\ topic' = Sent(p, send_test_result_event(c, ch, i[1], i[2], i[3], i[4], now))
        /\ UNCHANGED <<consumerVars, sideVars>>

ProduceCompletion ==
    \E p \in Partitions, c \in CandidateIds, ch \in ChallengeIds,
       i \in CompletionInputs, now \in CompletionTimes :
        /\ CanSend
        /\ topic' = Sent(p, send_challenge_completion_event(c, ch, i[1], i[2], i[3], now))
        /\ UNCHANGED <<consumerVars, sideVars>>

ProduceLiveMetric ==
    \E p \in Partitions, c \in CandidateIds, s \in SessionIds,
       m \in MetricTypes, x \in MetricValues, now \in LiveTimes :
        /\ CanSend
        /\ topic' = Sent(p, send_live_coding_metric(c, s, m, x, now))
        /\ UNCHANGED <<consumerVars, sideVars>>

\* a value written to the topic by anything else
ProduceForeign ==
    \E p \in Partitions, v \in ForeignValues :
        /\ CanSend
        /\ topic' = Sent(p, v)
        /\ UNCHANGED <<consumerVars, sideVars>>

-----------------------------------------------------------------------------
(* Micro-batches *)

\* the values after the given offsets, partition after partition
RECURSIVE Unread(_, _)
Unread(offs, p) ==
    IF p \notin Partitions THEN <<>>
    ELSE SubSeq(topic[p], offs[p] + 1, Len(topic[p])) \o Unread(offs, p + 1)

NewData(q) == Unread(offsets[q], 1)

Latest == [p \in Partitions |-> Len(topic[p])]

\* One micro-batch of an aggregating query (query1, query3) from the query
\* state qs.  Rows without a timestamp fall out of window(); rows whose
\* window ended at or before the watermark are discarded; the others are
\* merged into the state store; the keys merged into are written to the
\* sink (output mode update); state whose window ended at or before the
\* watermark is removed.
StepResult(q, wm, timed, late, kept, merged, closed) ==
    [offsets |-> Latest,
     watermark |-> wm,
     stats |-> SeqMax([i \in 1..Len(timed) |-> timed[i].event_timestamp]),
     store |-> [k \in DOMAIN merged \ Range(closed) |-> merged[k]],
     output |-> Updated(q, merged, kept),
     kept |-> kept,
     late |-> late,
     closed |-> [i \in 1..Len(closed) |-> <<closed[i], merged[closed[i]]>>]]

StepMerge(q, st, wm, timed, late, kept, merged) ==
    StepResult(q, wm, timed, late, kept, merged, SetToSeq(Closed(merged, wm)))

StepFilter(q, st, wm, timed) ==
    StepMerge(q, st, wm, timed,
              SelectSeq(timed, LAMBDA r : IsLate(q, r, wm)),
              SelectSeq(timed, LAMBDA r : ~IsLate(q, r, wm)),
              MergeAll(q, st, SelectSeq(timed, LAMBDA r : ~IsLate(q, r, wm))))

AggregateStep(q, qs) ==
    StepFilter(q, qs.store,
               NextWatermarkOf(q, qs.watermark, qs.stats),
               SelectSeq(QueryRows(q, events_df(Unread(qs.offsets, 1))),
                         LAMBDA r : r.event_timestamp # NullInt))

QueryState(q) ==
    [offsets |-> offsets[q], watermark |-> watermark[q],
     stats |-> stats[q], store |-> store[q]]

\* a trigger that runs a batch only when the topic has new values
BatchDue_dataonly(q, qs) == Unread(qs.offsets, 1) # <<>>

\* a batch runs when the topic has new values or when the watermark has
\* moved since the last batch
BatchDue(q, qs) ==
    \/ Unread(qs.offsets, 1) # <<>>
    \/ NextWatermarkOf(q, qs.watermark, qs.stats) > qs.watermark

AggregateBatch(q) ==
    \E b \in {AggregateStep(q, QueryState(q))}, t \in {AggregateStep(q, twin[q])} :
       /\ ~stopped
       /\ q \notin terminated
       /\ BatchDue(q, QueryState(q))
       /\ offsets' = [offsets EXCEPT ![q] = b.offsets]
       /\ watermark' = [watermark EXCEPT ![q] = b.watermark]
       /\ stats' = [stats EXCEPT ![q] = b.stats]
       /\ store' = [store EXCEPT ![q] = b.store]
       /\ console' = [console EXCEPT ![q] = Append(@, b.output)]
       /\ contrib' = [contrib EXCEPT ![q] = RecordAll(q, @, b.kept)]
       /\ dropped' = [dropped EXCEPT ![q] = @ \o b.late]
       /\ evicted' = [evicted EXCEPT ![q] = @ \o b.closed]
       /\ twin' = [twin EXCEPT ![q] =
                      [offsets |-> t.offsets, watermark |-> t.watermark,
                       stats |-> t.stats, store |-> t.store, output |-> t.output]]
       /\ UNCHANGED <<topic, postgres, generation, skipped, stopped, terminated, sideVars>>

TestAggregatesBatch == AggregateBatch("query1")
LiveAggregatesBatch == AggregateBatch("query3")

\* query2: completions to the console, output mode append
CompletionsConsoleBatch ==
    LET rows == completions_df(events_df(NewData("query2")))
    IN /\ ~stopped
       /\ "query2" \notin terminated
       /\ NewData("query2") # <<>>
       /\ offsets' = [offsets EXCEPT !["query2"] = Latest]
       /\ console' = [console EXCEPT !["query2"] = Append(@, rows)]
       /\ UNCHANGED <<topic, watermark, stats, store, postgres,
                      contrib, dropped, evicted, generation, twin, skipped, stopped,
                      terminated, sideVars>>

\* write_to_postgres: the batch is appended to the table; if the JDBC write
\* raises, the error is logged and the batch is gone
write_to_postgres(table, batch_df, ok) == IF ok THEN table \o batch_df ELSE table

\* query4: completions to PostgreSQL through foreachBatch
CompletionsPostgresBatch ==
    LET rows == completions_df(events_df(NewData("query4")))
    IN /\ ~stopped
       /\ "query4" \notin terminated
       /\ NewData("query4") # <<>>
       /\ offsets' = [offsets EXCEPT !["query4"] = Latest]
       /\ \E ok \in BOOLEAN : postgres' = write_to_postgres(postgres, rows, ok)
       /\ UNCHANGED <<topic, watermark, stats, store, console,
                      contrib, dropped, evicted, generation, twin, skipped, stopped,
                      terminated, sideVars>>

\* The consumer process dies and is started again.  No query is given a
\* name or a checkpointLocation of its own, so each start of a query takes
\* a new directory under spark.sql.streaming.checkpointLocation: it finds
\* no offsets, no watermark and no state there, and with startingOffsets
\* "latest" it begins at the end of the topic.
Restart ==
    /\ generation < MaxRestarts
    /\ generation' = generation + 1
    /\ offsets' = [q \in Queries |-> Latest]
    /\ watermark' = [q \in WindowedQueries |-> 0]
    /\ stats' = [q \in WindowedQueries |-> 0]
    /\ store' = [q \in WindowedQueries |-> <<>>]
    /\ skipped' = skipped \cup {q \in Queries : NewData(q) # <<>>}
    /\ stopped' = FALSE
    /\ terminated' = {}
    /\ UNCHANGED <<topic, console, postgres, contrib, dropped, evicted, twin, sideVars>>

\* Ctrl+C: awaitTermination is interrupted, __main__ logs "Consumer stopped
\* by user" and the process exits.  Nothing is closed, written or
\* checkpointed on the way out; the queries run no further batch.
Shutdown ==
    /\ ~stopped
    /\ stopped' = TRUE
    /\ UNCHANGED <<topic, offsets, watermark, stats, store, console, postgres,
                   contrib, dropped, evicted, generation, twin, skipped,
                   terminated, sideVars>>

-----------------------------------------------------------------------------
(* CreateCandidateUseCase.execute, one call per request.  Each request has
   its own session, so what the calls share is the table; a call touches
   it in find_by_email and again in save. *)

streamVars == <<topic, consumerVars>>

\* a request arrives and execute(candidate) is called
CallExecute(r) ==
    \E c \in CandidateInputs :
        /\ calls[r].pc = "idle"
        /\ calls' = [calls EXCEPT ![r] = [Idle EXCEPT !.pc = "find_by_email",
                                                       !.candidate = c]]
        /\ UNCHANGED <<candidates, serial, fetch, streamVars>>

\* existing = await self._candidate_repo.find_by_email(candidate.email)
ExecuteFind(r) ==
    \E ok \in BOOLEAN :
        /\ calls[r].pc = "find_by_email"
        /\ calls' = [calls EXCEPT
                       ![r].existing = find_by_email(candidates, calls[r].candidate.email, ok),
                       ![r].pc = "if existing"]
        /\ UNCHANGED <<candidates, serial, fetch, streamVars>>

\* if existing: raise ValueError(... already exists)
ExecuteRaise(r) ==
    /\ calls[r].pc = "if existing"
    /\ MayRaise(calls[r].existing)
    /\ calls' = [calls EXCEPT ![r].result = Raised("ValueError"), ![r].pc = "done"]
    /\ UNCHANGED <<candidates, serial, fetch, streamVars>>

\* return await self._candidate_repo.save(candidate)
ExecuteSave(r) ==
    \E s \in {save(candidates, serial, calls[r].candidate)} :
        /\ calls[r].pc = "if existing"
        /\ ~MayRaise(calls[r].existing)
        /\ candidates' = s.table
        /\ serial' = s.serial
        /\ calls' = [calls EXCEPT ![r].saved = Append(@, calls[r].candidate),
                                  ![r].result = s.result,
                                  ![r].pc = "done"]
        /\ UNCHANGED <<fetch, streamVars>>

CreateCandidateCall == \E r \in Requests : CallExecute(r)
CreateCandidateFind == \E r \in Requests : ExecuteFind(r)
CreateCandidateRaise == \E r \in Requests : ExecuteRaise(r)
CreateCandidateSave == \E r \in Requests : ExecuteSave(r)

-----------------------------------------------------------------------------
(* GitHubEnricher.fetch_user_repos *)

\* while len(repos) < max_repos: one request for the page, whose response
\* holds at most per_page repositories
FetchPage ==
    \E raises \in BOOLEAN, status_code \in StatusCodes,
       n \in PageLengths(fetch.per_page) :
        /\ fetch.pc = "while"
        /\ Len(fetch.repos) < fetch.max_repos
        /\ fetch' = fetch_page(fetch, raises, status_code, [i \in 1..n |-> fetch.page])
        /\ UNCHANGED <<candidates, serial, calls, streamVars>>

\* the loop condition fails: return repos
FetchReturn ==
    /\ fetch.pc = "while"
    /\ Len(fetch.repos) >= fetch.max_repos
    /\ fetch' = [fetch EXCEPT !.pc = "return"]
    /\ UNCHANGED <<candidates, serial, calls, streamVars>>

-----------------------------------------------------------------------------
(* The consumer process ends *)

\* A query terminates with an exception (its source stays unreachable, a
\* batch raises).  The main thread waits in query1.awaitTermination(), then
\* query2, query3, query4 in turn: awaitTermination raises the exception of
\* the query it waits for, consume_coding_events is left, __main__ logs
\* "Consumer error" and the process exits with every query.  The failure of
\* a query the main thread is not yet waiting for goes unnoticed.
Awaited == "query1"

QueryFails(q) ==
    /\ ~stopped
    /\ q \notin terminated
    /\ terminated' = terminated \cup {q}
    /\ stopped' = (q = Awaited)
    /\ UNCHANGED <<topic, offsets, watermark, stats, store, console, postgres,
                   contrib, dropped, evicted, generation, twin, skipped, sideVars>>

TestAggregatesFails == QueryFails("query1")
CompletionsConsoleFails == QueryFails("query2")
LiveAggregatesFails == QueryFails("query3")
CompletionsPostgresFails == QueryFails("query4")

Next ==
    \/ Restart
    \/ Shutdown
    \/ TestAggregatesFails
    \/ CompletionsConsoleFails
    \/ LiveAggregatesFails
    \/ CompletionsPostgresFails
    \/ ProduceCodeSubmission
    \/ ProduceTestResult
    \/ ProduceBoundaryTestResult
    \/ ProduceScenarioTestResult
    \/ ProduceLatenessTestResult
    \/ ProduceLatenessLiveMetric
    \/ ProduceKeyedTestResult
    \/ ProduceKeyedLiveMetric
    \/ ProduceOutOfRangeTestResult
    \/ ProduceCompletion
    \/ ProduceLiveMetric
    \/ ProduceForeign
    \/ TestAggregatesBatch
    \/ LiveAggregatesBatch
    \/ CompletionsConsoleBatch
    \/ CompletionsPostgresBatch
    \/ CreateCandidateCall
    \/ CreateCandidateFind
    \/ CreateCandidateRaise
    \/ CreateCandidateSave
    \/ FetchPage
    \/ FetchReturn

Spec == Init /\ [][Next]_vars

\* the test-result pipeline on its own
NextTest == ProduceTestResult \/ TestAggregatesBatch
SpecTest == Init /\ [][NextTest]_vars

\* the live-metric pipeline on its own
NextLive == ProduceLiveMetric \/ LiveAggregatesBatch
SpecLive == Init /\ [][NextLive]_vars

\* the test-result pipeline with events around the end of one window
NextBoundary == ProduceBoundaryTestResult \/ TestAggregatesBatch
SpecBoundary == Init /\ [][NextBoundary]_vars

\* the test-result pipeline fed with events at T, T+2 and T+11 minutes
NextScenario == ProduceScenarioTestResult \/ TestAggregatesBatch
SpecScenario == Init /\ [][NextScenario]_vars

\* query1 is running and a batch of it is due: ENABLED TestAggregatesBatch
TestBatchIsDue ==
    ~stopped /\ "query1" \notin terminated /\ BatchDue("query1", QueryState("query1"))

\* the same with the default trigger, under which a query runs its next
\* batch as soon as one is due.  This is WF_vars(TestAggregatesBatch) with
\* the enabling condition of the batch written out.
SpecScenarioFair ==
    SpecScenario /\ ([]<>(~TestBatchIsDue) \/ []<><<TestAggregatesBatch>>_vars)

\* the test-result pipeline until the consumer is interrupted
NextShutdown == ProduceTestResult \/ TestAggregatesBatch \/ Shutdown
SpecShutdown == Init /\ [][NextShutdown]_vars

\* the test-result pipeline across a restart of the consumer
NextRestart == ProduceTestResult \/ TestAggregatesBatch \/ Restart
SpecRestart == Init /\ [][NextRestart]_vars

\* both windowed pipelines side by side on one partition
NextLateness ==
    \/ ProduceLatenessTestResult
    \/ ProduceLatenessLiveMetric
    \/ TestAggregatesBatch
    \/ LiveAggregatesBatch
SpecLateness == Init /\ [][NextLateness]_vars

\* both windowed pipelines fed with events of several group keys
NextKeyed ==
    \/ ProduceKeyedTestResult
    \/ ProduceKeyedLiveMetric
    \/ TestAggregatesBatch
    \/ LiveAggregatesBatch
SpecKeyed == Init /\ [][NextKeyed]_vars

\* the live-metric pipeline while queries terminate with exceptions
NextFailure ==
    \/ ProduceLiveMetric
    \/ LiveAggregatesBatch
    \/ TestAggregatesFails
    \/ LiveAggregatesFails
SpecFailure == Init /\ [][NextFailure]_vars

\* concurrent calls of CreateCandidateUseCase.execute
NextCreate ==
    \/ CreateCandidateCall
    \/ CreateCandidateFind
    \/ CreateCandidateRaise
    \/ CreateCandidateSave
SpecCreate == Init /\ [][NextCreate]_vars

\* one call of fetch_user_repos
NextFetch == FetchPage \/ FetchReturn
SpecFetch == InitFetch /\ [][NextFetch]_vars

\* the completion pipeline: both sinks of completions_df
NextCompletions ==
    ProduceCompletion \/ CompletionsConsoleBatch \/ CompletionsPostgresBatch
SpecCompletions == Init /\ [][NextCompletions]_vars

\* values no pipeline is defined for, or that are malformed, on their way
\* through the test-result and the completion pipeline
NextDecode ==
    \/ ProduceCodeSubmission
    \/ ProduceOutOfRangeTestResult
    \/ ProduceForeign
    \/ TestAggregatesBatch
    \/ CompletionsPostgresBatch
SpecDecode == Init /\ [][NextDecode]_vars

-----------------------------------------------------------------------------
(* Definitions the properties are written with *)

Last(s) == s[Len(s)]

\* the WindowKey of an emitted row
RowKey(q, row) ==
    IF q = "query1"
    THEN [window |-> row.window, candidate_id |-> row.candidate_id,
          challenge_id |-> row.challenge_id]
    ELSE [window |-> row.window, candidate_id |-> row.candidate_id,
          session_id |-> row.session_id, metric_type |-> row.metric_type]

\* a buffer built from rows alone
RECURSIVE Fold(_, _, _)
Fold(q, buf, rows) ==
    IF rows = <<>> THEN buf ELSE Fold(q, Merge(q, buf, Head(rows)), Tail(rows))

\* the rows of the console sink of q in batch i that carry key k
RowsFor(q, k, i) == {row \in console[q][i] : RowKey(q, row) = k}

\* the batches of q whose output carries key k
BatchesOf(q, k) == {i \in 1..Len(console[q]) : RowsFor(q, k, i) # {}}

SetMax(S) == CHOOSE x \in S : \A y \in S : y <= x

\* the rows of key k in the last of the batches B
LastOf(q, k, B) == IF B = {} THEN {} ELSE RowsFor(q, k, SetMax(B))

\* the rows last written for key k
LastRowsFor(q, k) == LastOf(q, k, BatchesOf(q, k))

EvictedKeys(q) == {evicted[q][i][1] : i \in 1..Len(evicted[q])}

\* the values query q has read from partition p
Consumed(q, p) == SubSeq(topic[p], 1, offsets[q][p])

\* the event times query q has observed on partition p
ObservedTimes(q, p) ==
    {r.event_timestamp : r \in Range(QueryRows(q, events_df(Consumed(q, p))))} \ {NullInt}

ObservedAll(q) == UNION {ObservedTimes(q, p) : p \in Partitions}

\* the next watermark of q is the largest of the event times S minus the delay
WatermarkFollows(q, S) == S # {} => NextWatermark(q) = SetMax(S) - Delay(q)

\* every row the program has written to one of its sinks
SinkRows ==
    (UNION {UNION Range(console[q]) : q \in WindowedQueries})
    \cup (UNION {Range(console["query2"][i]) : i \in 1..Len(console["query2"])})
    \cup Range(postgres)

-----------------------------------------------------------------------------
(* C1 *)

-----------------------------------------------------------------------------
(* C2 *)

-----------------------------------------------------------------------------
(* C3 *)

\* C3: an event is too late exactly when its event time is before the
\* watermark minus the allowed lateness, and every too-late event is
\* delivered to a dead-letter sink and counted, none silently discarded.
C3_LateEventsDeadLettered ==
    \A q \in WindowedQueries :
        /\ \A i \in 1..Len(dropped[q]) : dropped[q][i] \in SinkRows
        /\ \A i \in 1..Len(dropped[q]) :
               dropped[q][i].event_timestamp < watermark[q] - Delay(q)

-----------------------------------------------------------------------------
(* C4 *)

\* the rows merged into key k, rearranged by the permutation f
Permuted(rows, f) == [i \in 1..Len(rows) |-> rows[f[i]]]

\* the buffer of key k: in the state store, or as it was when removed
FinalBuffer(q, k) ==
    IF k \in DOMAIN store[q] THEN store[q][k]
    ELSE LET i == CHOOSE j \in 1..Len(evicted[q]) : evicted[q][j][1] = k
         IN evicted[q][i][2]

\* every arrival order of rows folds to buf, and out is the row made of buf
AllOrders(q, k, rows, buf, out) ==
    /\ \A f \in Permutations(1..Len(rows)) : Fold(q, ZeroBuf(q), Permuted(rows, f)) = buf
    /\ OutRow(q, k, buf) \in out

\* C4: for the rows merged into one window of one key, every arrival order
\* gives the buffer, and so the row, that the actual arrival order gave.
C4_OrderIndependent ==
    \A q \in WindowedQueries : \A k \in DOMAIN contrib[q] :
        AllOrders(q, k, contrib[q][k], FinalBuffer(q, k), LastRowsFor(q, k))

\* three rows, not all alike, merged into one window over more than one batch
C4_Witness ==
    \E q \in WindowedQueries : \E k \in DOMAIN contrib[q] :
        /\ Len(contrib[q][k]) >= 3
        /\ Cardinality(Range(contrib[q][k])) >= 2
        /\ Cardinality(BatchesOf(q, k)) >= 2

-----------------------------------------------------------------------------
(* C5 *)

\* C5: every row merged into a buffer has its event time inside the window
\* of that buffer; windows are the aligned buckets of the query's size, so a
\* row has one window; a buffer that was removed is not in the store again
\* and no row has been merged for its key since.
C5_WindowMembership ==
    \A q \in WindowedQueries :
        /\ \A k \in DOMAIN contrib[q] :
               /\ k.window.start % WindowSize(q) = 0
               /\ k.window.end = k.window.start + WindowSize(q)
               /\ \A i \in 1..Len(contrib[q][k]) :
                      /\ k.window.start <= contrib[q][k][i].event_timestamp
                      /\ contrib[q][k][i].event_timestamp < k.window.end
        /\ DOMAIN store[q] \subseteq DOMAIN contrib[q]
        /\ \A i \in 1..Len(evicted[q]) :
               /\ evicted[q][i][1] \notin DOMAIN store[q]
               /\ evicted[q][i][2] = Fold(q, ZeroBuf(q), contrib[q][evicted[q][i][1]])
               /\ \A j \in 1..Len(evicted[q]) :
                      evicted[q][j][1] = evicted[q][i][1] => j = i

\* a removed buffer, a row for its window discarded afterwards, and a row
\* that is not at the start of its window
C5_Witness ==
    \E q \in WindowedQueries :
        /\ \E i \in 1..Len(evicted[q]) : \E j \in 1..Len(dropped[q]) :
               KeyOf(q, dropped[q][j]) = evicted[q][i][1]
        /\ \E k \in DOMAIN contrib[q] : \E i \in 1..Len(contrib[q][k]) :
               contrib[q][k][i].event_timestamp # k.window.start

-----------------------------------------------------------------------------
(* C6 *)

\* what a batch step of q removes from the state store
Removed(q) == DOMAIN store[q] \ DOMAIN store'[q]

\* no open buffer has window_end <= watermark
NoneOpenBelowWatermark ==
    \A q \in WindowedQueries : \A k \in DOMAIN store[q] : k.window.end > watermark[q]

\* a batch step leaves open every buffer whose window ends after the
\* watermark, and unchanged unless the batch merged a row into it
OthersLeftOpen(q) ==
    \A k \in DOMAIN store[q] :
        k.window.end > watermark'[q] =>
            /\ k \in DOMAIN store'[q]
            /\ store'[q][k] = store[q][k] \/ contrib'[q][k] # contrib[q][k]

-----------------------------------------------------------------------------
(* C7 *)

C7_WitnessClose ==
    \E q \in WindowedQueries :
        /\ EvictedKeys(q) # {}
        /\ \E k \in DOMAIN store[q] : Len(contrib[q][k]) >= 2

-----------------------------------------------------------------------------
(* C8 *)

\* C8: a query that was restarted from its checkpoint emits, batch for
\* batch, the rows the query would have emitted had it never been
\* restarted, when both are given the same input.
C8_RestoreRoundTrip ==
    \A q \in WindowedQueries :
        (q \notin skipped /\ console[q] # <<>>) => Last(console[q]) = twin[q].output

-----------------------------------------------------------------------------
(* C9 *)

\* the completion events query4 has read
CompletionsRead ==
    UNION {{e \in Range(events_df(Consumed("query4", p))) :
               e.event_type = "challenge_completion"} : p \in Partitions}

\* C9: the completion sink holds at most one row per event_id, however many
\* events carried that event_id.
C9_OneRowPerEventId ==
    Len(postgres) <= Cardinality({e.event_id : e \in CompletionsRead})

-----------------------------------------------------------------------------
(* C10 *)

KnownTypes == {"test_result", "challenge_completion", "live_coding_metric"}

\* the decoder of the specification: a known event_type, the required
\* fields, a timestamp that parses, values in range
Decodable(e) ==
    /\ e.event_type \in KnownTypes
    /\ e.event_id # NullInt
    /\ e.candidate_id # NullInt
    /\ e.event_timestamp # NullInt
    /\ e.event_type = "test_result" => e.tests_passed <= e.tests_total

\* the values query q has read that do not decode
Undecodable(q) ==
    UNION {{v \in Range(Consumed(q, p)) : ~Decodable(ParseEvent(v))} : p \in Partitions}

\* C10: every value that does not decode is in a dead-letter sink with its
\* payload, none reaches a buffer and none reaches the sink.
C10_UndecodableDeadLettered ==
    /\ \A q \in Queries : \A v \in Undecodable(q) : v \in SinkRows
    /\ \A q \in WindowedQueries : \A k \in DOMAIN contrib[q] :
           \A i \in 1..Len(contrib[q][k]) :
               /\ contrib[q][k][i].candidate_id # NullInt
               /\ contrib[q][k][i].tests_passed <= contrib[q][k][i].tests_total
    /\ \A i \in 1..Len(postgres) : postgres[i].event_timestamp # NullInt

-----------------------------------------------------------------------------
(* C11 *)

\* a value of the topic that is a challenge_completion event
IsCompletionValue(v) ==
    "event_type" \in DOMAIN v /\ v.event_type = "challenge_completion"

\* the completion events on the topic that query q has read
CompletionsProcessed(q) ==
    UNION {{<<p, i>> : i \in {j \in 1..offsets[q][p] : IsCompletionValue(topic[p][j])}} :
              p \in Partitions}

\* the completion events query q has not read yet
CompletionsArrived(q) == SelectSeq(NewData(q), IsCompletionValue)

RECURSIVE RowCount(_)
RowCount(batches) ==
    IF batches = <<>> THEN 0 ELSE Len(Head(batches)) + RowCount(Tail(batches))

\* C11: the batch that reads a completion event emits one row for it, made
\* of the fields of the event, whatever the watermarks are and with nothing
\* put in a state store; the rows emitted so far are as many as the
\* completion events read so far.  query4 hands the same rows to
\* write_to_postgres, which appends all of them or none.
C11_CompletionsEmittedOnArrival ==
    /\ [](RowCount(console["query2"]) = Cardinality(CompletionsProcessed("query2")))
    /\ [][Len(console'["query2"]) > Len(console["query2"]) =>
             /\ Len(Last(console'["query2"])) = Len(CompletionsArrived("query2"))
             /\ \A i \in 1..Len(CompletionsArrived("query2")) :
                    Last(console'["query2"])[i] =
                        CompletionRow(ParseEvent(CompletionsArrived("query2")[i]))
             /\ NewData("query2")' = <<>>
             /\ UNCHANGED <<store, watermark, stats>>]_vars
    /\ [][offsets'["query4"] # offsets["query4"] =>
             /\ Len(postgres') - Len(postgres) \in {0, Len(CompletionsArrived("query4"))}
             /\ UNCHANGED <<store, watermark, stats>>]_vars

\* two batches of query2, one of them with the same completion twice, and
\* query4 has written a batch of two rows
C11_Witness ==
    /\ Len(console["query2"]) >= 2
    /\ \E i \in 1..Len(console["query2"]) :
           /\ Len(console["query2"][i]) >= 2
           /\ Cardinality(Range(console["query2"][i])) = 1
    /\ Len(postgres) >= 2

-----------------------------------------------------------------------------
(* C12 *)

\* the column types of get_event_schema
SchemaType ==
    [event_id |-> "string", event_type |-> "string", candidate_id |-> "integer",
     challenge_id |-> "string", session_id |-> "string", timestamp |-> "string",
     tests_passed |-> "integer", tests_total |-> "integer",
     success_rate |-> "float", execution_time_ms |-> "float",
     final_score |-> "float", time_taken_seconds |-> "integer",
     attempts |-> "integer", metric_type |-> "string", metric_value |-> "float",
     errors |-> "array", has_errors |-> "boolean"]

\* the column types the aggregate functions avg and sum take; a column of
\* another type fails the analysis of the query
NumericTypes == {"integer", "float"}

\* the columns test_aggregates gives to avg and to _sum
TestAggregateInputs == {"success_rate", "execution_time_ms", "has_errors"}

\* the analysis of test_aggregates accepts its aggregate expressions
TestAggregatesResolve == \A f \in TestAggregateInputs : SchemaType[f] \in NumericTypes

\* tests_passed/tests_total*100 of one row
OwnSuccessRate(r) == (r.tests_passed * 100) \div r.tests_total

RECURSIVE SumOwnSuccessRate(_)
SumOwnSuccessRate(rows) ==
    IF rows = <<>> THEN 0 ELSE OwnSuccessRate(Head(rows)) + SumOwnSuccessRate(Tail(rows))

\* C12: the row of a test-result window has attempt_count = the number of
\* events merged into the window, error_count = the number of those with
\* has_errors, computed by an aggregate the query can be built with, and
\* avg_success_rate = the mean of tests_passed/tests_total*100 over them.
C12_RowFromOwnFields ==
    \A k \in DOMAIN contrib["query1"] : \A row \in LastRowsFor("query1", k) :
        /\ row.attempt_count = Len(contrib["query1"][k])
        /\ TestAggregatesResolve
        /\ row.error_count =
               Cardinality({i \in 1..Len(contrib["query1"][k]) :
                               contrib["query1"][k][i].has_errors = 1})
        /\ row.avg_success_rate =
               Avg(SumOwnSuccessRate(contrib["query1"][k]), Len(contrib["query1"][k]))

-----------------------------------------------------------------------------
(* C13 *)

\* a row that arrived with event_time = window_end - delay - 1 for a window
\* end that the watermark of q has passed
AtLateBoundary(q, r) ==
    /\ (r.event_timestamp + Delay(q) + 1) % WindowSize(q) = 0
    /\ watermark[q] > r.event_timestamp + Delay(q) + 1

\* C13: an event with event_time = window_end - allowed lateness - 1 that
\* arrives after the watermark has passed window_end is in the dead-letter
\* sink, and its window is not open.
C13_BoundaryEventDeadLettered ==
    \A q \in WindowedQueries : \A i \in 1..Len(dropped[q]) :
        AtLateBoundary(q, dropped[q][i]) =>
            /\ dropped[q][i] \in SinkRows
            /\ KeyOf(q, dropped[q][i]) \notin DOMAIN store[q]

-----------------------------------------------------------------------------
(* C14 *)

\* the count("*") column of an emitted row
CountColumn(q, row) == IF q = "query1" THEN row.attempt_count ELSE row.metric_count

\* C14: no emitted row has count 0, and no buffer kept in or removed from
\* the state store has; a WindowKey appears in the output only if a row
\* has been merged under it.
C14_NoEmptyWindowEmitted ==
    \A q \in WindowedQueries :
        /\ \A i \in 1..Len(console[q]) : \A row \in console[q][i] :
               /\ CountColumn(q, row) >= 1
               /\ RowKey(q, row) \in DOMAIN contrib[q]
        /\ \A i \in 1..Len(evicted[q]) : evicted[q][i][2].cnt >= 1
        /\ \A k \in DOMAIN store[q] : store[q][k].cnt >= 1

\* a batch that ran on a watermark advance alone, removed a window and
\* wrote no row, while the window after the removed one never got a row
C14_Witness ==
    \E q \in WindowedQueries :
        /\ \E i \in 1..Len(console[q]) : console[q][i] = {}
        /\ \E k \in EvictedKeys(q) :
               [k EXCEPT !.window = [start |-> @.end, end |-> @.end + WindowSize(q)]]
                   \notin DOMAIN contrib[q]
        /\ DOMAIN store[q] # {}

-----------------------------------------------------------------------------
(* C15 *)

\* the WindowKey of a test-result event of (7, "c1") with event time t
ScenarioKey(t) ==
    KeyOf("query1", [candidate_id |-> 7, challenge_id |-> "c1", event_timestamp |-> t])

\* the event times of the rows merged under key k of query1
TimesOf(k) ==
    IF k \in DOMAIN contrib["query1"]
    THEN [i \in 1..Len(contrib["query1"][k]) |-> contrib["query1"][k][i].event_timestamp]
    ELSE <<>>

\* the events at T and T+2 minutes, one of each, have been merged
FirstTwoMerged ==
    /\ Len(TimesOf(ScenarioKey(ScenarioStart))) = 2
    /\ Range(TimesOf(ScenarioKey(ScenarioStart))) = {ScenarioStart, ScenarioStart + 2}

ScenarioRows ==
    /\ ScenarioKey(ScenarioStart + 2) = ScenarioKey(ScenarioStart)
    /\ ScenarioKey(ScenarioStart + 11) # ScenarioKey(ScenarioStart)
    /\ ScenarioKey(ScenarioStart).window.end = ScenarioStart + 10
    /\ FirstTwoMerged =>
           \A row \in LastRowsFor("query1", ScenarioKey(ScenarioStart)) :
               row.attempt_count = 2
    /\ Range(TimesOf(ScenarioKey(ScenarioStart + 11))) \subseteq {ScenarioStart + 11}
    /\ \A row \in LastRowsFor("query1", ScenarioKey(ScenarioStart + 11)) :
           row.attempt_count = Len(TimesOf(ScenarioKey(ScenarioStart + 11)))

-----------------------------------------------------------------------------
(* C16 *)

\* C16: every batch handed to the sink writer ends delivered or spilled,
\* never lost.  The consumer has no spill store, so every completion event
\* query4 has read has its row in the table.
C16_DeliveredOrSpilled ==
    Len(postgres) >= Cardinality(CompletionsProcessed("query4"))

-----------------------------------------------------------------------------
(* C17 *)

\* C17: a start of the consumer restores the most recent valid checkpoint.
\* Every completed batch of a query is a checkpoint of its offsets, its
\* watermark and its state store, so a start leaves the three as the last
\* batch left them, and the queries run again afterwards.
C17_RestoresLatestCheckpoint ==
    [][generation' > generation =>
          \A q \in WindowedQueries :
              /\ offsets'[q] = offsets[q]
              /\ watermark'[q] = watermark[q]
              /\ stats'[q] = stats[q]
              /\ store'[q] = store[q]]_vars

-----------------------------------------------------------------------------
(* C19 *)

\* C19: at shutdown ingestion stops, every outstanding window is
\* force-closed and its row written before the process exits: once the
\* consumer has stopped no buffer is open, the stop itself removed the
\* buffers that were, and nothing is merged or emitted afterwards.
C19_ShutdownFlushes ==
    /\ [](stopped => \A q \in WindowedQueries : store[q] = <<>>)
    /\ [][stopped' /\ ~stopped =>
             \A q \in WindowedQueries : DOMAIN store[q] \subseteq EvictedKeys(q)']_vars
    /\ [][stopped => UNCHANGED <<store, contrib, console>>]_vars

-----------------------------------------------------------------------------
(* C20 *)

\* the window of event time t is open in the state store of query1 and
\* ends at or before the watermark the next batch will run with
DueToClose(t) ==
    /\ ScenarioKey(t) \in DOMAIN store["query1"]
    /\ ScenarioKey(t).window.end <= NextWatermark("query1")

\* the window of event time t has been removed, and the row last written
\* for it is the row of the buffer removed
ClosedAndDelivered(t) ==
    /\ ScenarioKey(t) \notin DOMAIN store["query1"]
    /\ ScenarioKey(t) \in EvictedKeys("query1")
    /\ LastRowsFor("query1", ScenarioKey(t)) =
           {OutRow("query1", ScenarioKey(t), FinalBuffer("query1", ScenarioKey(t)))}

\* the next batch removes every open window that ends at or before the
\* watermark it runs with
NextBatchRemovesDue ==
    Len(console'["query1"]) > Len(console["query1"]) =>
        \A k \in DOMAIN store["query1"] :
            k.window.end <= NextWatermark("query1") => k \in Removed("query1")

-----------------------------------------------------------------------------
(* C22 *)

\* a batch of query q is due
HasWork(q) == BatchDue(q, QueryState(q))

\* C22: a fatal condition halts only the worker it strikes: when a query
\* has terminated with an exception, every query that has not terminated
\* and has a batch due is still running.
C22_FailureHaltsOnlyOne ==
    \A q \in terminated, o \in WindowedQueries \ terminated :
        HasWork(o) => ~stopped

-----------------------------------------------------------------------------
(* C23 *)

\* the row of the table with the given id holds the candidate
Holds(table, id, c) ==
    \E i \in 1..Len(table) :
        table[i] = [candidate_id |-> id, candidate_name |-> c.name, email |-> c.email]

\* request r takes a step of execute
Steps(r) == calls'[r] # calls[r]

\* C23: execute raises ValueError and never calls save, leaving the
\* repository unchanged, whenever find_by_email returned a candidate;
\* otherwise it calls save exactly once with its candidate, and what it
\* returns is the id save returned, that of the row holding the candidate.
C23_RaisesOrSavesOnce ==
    /\ [](\A r \in Requests : calls[r].pc = "done" =>
            IF calls[r].existing # None
            THEN /\ calls[r].result = Raised("ValueError")
                 /\ calls[r].saved = <<>>
            ELSE /\ calls[r].saved = <<calls[r].candidate>>
                 /\ calls[r].result # Raised("ValueError")
                 /\ calls[r].result.kind \in {"returned", "raised"})
    /\ [][\A r \in Requests :
             /\ (Steps(r) /\ calls'[r].existing # None) =>
                    UNCHANGED <<candidates, serial>>
             /\ (Steps(r) /\ calls'[r].result.kind = "returned") =>
                    /\ Holds(candidates', calls'[r].result.value, calls[r].candidate)
                    /\ calls[r].candidate.id = NoId => calls'[r].result.value = serial'
                    /\ calls[r].candidate.id # NoId =>
                           calls'[r].result.value = calls[r].candidate.id
             /\ (Steps(r) /\ calls'[r].result.kind = "raised") =>
                    UNCHANGED candidates]_vars

\* one call has raised ValueError over the email another call has saved
C23_Witness ==
    \E r, o \in Requests :
        /\ calls[r].result = Raised("ValueError")
        /\ calls[r].existing.email = calls[r].candidate.email
        /\ calls[o].result.kind = "returned"
        /\ calls[o].saved = <<calls[o].candidate>>
        /\ Holds(candidates, calls[o].result.value, calls[r].existing)

-----------------------------------------------------------------------------
(* C24 *)

\* C24: fetch_user_repos(username, max_repos) returns at most max_repos
\* repositories.
C24_AtMostMaxRepos ==
    fetch.pc = "return" => Len(fetch.repos) <= fetch.max_repos

-----------------------------------------------------------------------------
(* C30 *)

-----------------------------------------------------------------------------
(* C25 *)

\* the sum of the values of a function
RECURSIVE SumFn(_)
SumFn(f) ==
    IF DOMAIN f = {} THEN 0
    ELSE LET x == CHOOSE y \in DOMAIN f : TRUE
         IN f[x] + SumFn([y \in DOMAIN f \ {x} |-> f[y]])

\* the count column of the row last emitted for key k
LastCount(q, k) == SumFn([row \in LastRowsFor(q, k) |-> CountColumn(q, row)])

\* the number of rows with an event time in what q gets from the values
Valid(q, values) ==
    Len(SelectSeq(QueryRows(q, events_df(values)), LAMBDA r : r.event_timestamp # NullInt))

\* the valid windowed events q has processed since it was started
Processed(q) == SumFn([p \in Partitions |-> Valid(q, Consumed(q, p))])

\* the counts of all the rows q has emitted
EmittedCount(q) ==
    SumFn([i \in 1..Len(console[q]) |->
             SumFn([row \in console[q][i] |-> CountColumn(q, row)])])

\* the counts of the finalized rows: for every window removed from the
\* state store, the row last emitted for it
FinalizedCount(q) == SumFn([k \in EvictedKeys(q) |-> LastCount(q, k)])

\* the counts of the open accumulators
OpenCount(q) == SumFn([k \in DOMAIN store[q] |-> store[q][k].cnt])

-----------------------------------------------------------------------------
(* C26 *)

\* the valid windowed events of q on the topic
OnTopic(q) == SumFn([p \in Partitions |-> Valid(q, topic[p])])

\* C26: state and offsets are saved and restored as one cut, so that a
\* query that has read the whole topic, restarted or not, has counted
\* every event of the topic exactly once: the counts of the rows last
\* emitted for the windows, with the events dropped as late, add up to the
\* events on the topic.
C26_CountedOnceAcrossRestore ==
    \A q \in WindowedQueries :
        NewData(q) = <<>> =>
            SumFn([k \in DOMAIN contrib[q] |-> LastCount(q, k)]) + Len(dropped[q])
                = OnTopic(q)

-----------------------------------------------------------------------------
(* C27 *)

\* the allowed lateness of each pipeline, in minutes
AllowedLateness(q) == IF q = "query1" THEN 10 ELSE 5

\* an event of q's own pipeline that q has read puts the end of the
\* window behind q's allowed lateness
OwnEventPast(q, end) == \E t \in ObservedAll(q) : t - AllowedLateness(q) >= end

\* C27: a window is closed, and an event dropped as late, only when an
\* event of the same pipeline lies the pipeline's own allowed lateness (10
\* minutes for test results, 5 for live metrics) past the end of the
\* window; the watermark of a pipeline is an event time of that pipeline
\* less its allowed lateness.
C27_OwnLateness ==
    \A q \in WindowedQueries :
        /\ \A i \in 1..Len(evicted[q]) : OwnEventPast(q, evicted[q][i][1].window.end)
        /\ \A i \in 1..Len(dropped[q]) : OwnEventPast(q, KeyOf(q, dropped[q][i]).window.end)
        /\ watermark[q] > 0 =>
               \E t \in ObservedAll(q) : watermark[q] = t - AllowedLateness(q)

\* the watermark of one windowed query has passed the end of a window that
\* the other, which has read the same values, keeps open
PassedByOther(q, o) ==
    /\ NewData(q) = <<>>
    /\ \E k \in DOMAIN store[q] : k.window.end <= watermark[o]
    /\ watermark[q] < watermark[o]

C27_Witness ==
    /\ PassedByOther("query1", "query3")
    /\ evicted["query3"] # <<>>

-----------------------------------------------------------------------------
(* C28 *)

\* row r of the pipeline of q has the group key of k and falls in its window
SameGroup(q, k, r) ==
    /\ r.candidate_id = k.candidate_id
    /\ IF q = "query1" THEN r.challenge_id = k.challenge_id
       ELSE r.session_id = k.session_id /\ r.metric_type = k.metric_type
    /\ k.window.start <= r.event_timestamp
    /\ r.event_timestamp < k.window.end

RECURSIVE RemoveOne(_, _)
RemoveOne(s, x) ==
    IF s = <<>> THEN <<>>
    ELSE IF Head(s) = x THEN Tail(s)
    ELSE <<Head(s)>> \o RemoveOne(Tail(s), x)

\* the sequence s without one occurrence of each element of d
RECURSIVE Without(_, _)
Without(s, d) == IF d = <<>> THEN s ELSE Without(RemoveOne(s, Head(d)), Tail(d))

RECURSIVE ConsumedFrom(_, _)
ConsumedFrom(q, p) ==
    IF p \notin Partitions THEN <<>> ELSE Consumed(q, p) \o ConsumedFrom(q, p + 1)

\* the rows of q's own pipeline among the values q has read
OwnRows(q) == QueryRows(q, events_df(ConsumedFrom(q, 1)))

\* the rows of its own pipeline that q has read, of the group and window
\* of k, and were not dropped as late
MembersIn(q, k, own) ==
    Without(SelectSeq(own, LAMBDA r : SameGroup(q, k, r)),
            SelectSeq(dropped[q], LAMBDA r : SameGroup(q, k, r)))

\* every emitted row aggregates the members of its key, and every row read
\* is a member of an emitted key
RowsOfOwnKey(q, own, keys) ==
    /\ \A k \in keys :
           LastRowsFor(q, k) = {OutRow(q, k, Fold(q, ZeroBuf(q), MembersIn(q, k, own)))}
    /\ \A r \in Range(own) :
           \/ r.event_timestamp = NullInt
           \/ r \in Range(dropped[q])
           \/ \E k \in keys : SameGroup(q, k, r)

\* every key written or changed by the step has a member among the rows
\* just read
OnlyKeysOf(q, keys, fresh) == \A k \in keys : \E r \in Range(fresh) : SameGroup(q, k, r)

EmittedKeys(q) == {RowKey(q, row) : row \in UNION Range(console[q])}

\* the rows and the buffers that a step of q writes or changes
RowsWritten(q) == IF console'[q] # console[q] THEN Last(console'[q]) ELSE {}
KeysChanged(q) ==
    {k \in DOMAIN store'[q] : k \notin DOMAIN store[q] \/ store'[q][k] # store[q][k]}

\* C28: the row of a window aggregates exactly the events of its own
\* pipeline that have its group key and fall in its window (and were not
\* dropped as late), every such event is in the row of its own key, and a
\* step writes a row or changes an accumulator only for a key that an
\* event it has just read belongs to.
C28_KeyIsolation ==
    /\ [](\A q \in WindowedQueries : RowsOfOwnKey(q, OwnRows(q), EmittedKeys(q)))
    /\ [][\A q \in WindowedQueries :
             OnlyKeysOf(q, {RowKey(q, row) : row \in RowsWritten(q)} \cup KeysChanged(q),
                        QueryRows(q, events_df(NewData(q))))]_vars

\* two test results of one candidate and one window for two challenges
\* have given two rows of one attempt each, next to a row of the same
\* candidate in the live-metric pipeline
C28_Witness ==
    /\ \E k, l \in DOMAIN store["query1"] :
           /\ k.window = l.window
           /\ k.candidate_id = l.candidate_id
           /\ k.challenge_id # l.challenge_id
           /\ store["query1"][k].cnt = 1
           /\ store["query1"][l].cnt = 1
           /\ \E m \in DOMAIN store["query3"] : m.candidate_id = k.candidate_id
    /\ NewData("query1") = <<>>
    /\ NewData("query3") = <<>>

-----------------------------------------------------------------------------
(* C29 *)

\* the places of the topic: <<partition, offset>>
Positions == {a \in Partitions \X (1..MaxEvents) : a[2] <= Len(topic[a[1]])}

\* C29: two different events sent through send_event never carry the same
\* event_id, whatever the clock read at the two calls.
C29_DistinctEventIds ==
    \A a, b \in Positions :
        topic[a[1]][a[2]] # topic[b[1]][b[2]] =>
            topic[a[1]][a[2]].event_id # topic[b[1]][b[2]].event_id

====
